---- MODULE Spec2Model ----
(***************************************************************************)
(* A model of two subsystems of the JOS teaching kernel:                   *)
(*   - kern/monitor.c : the kernel monitor (command loop, tokenizer,       *)
(*     dispatcher, backtrace, step / exitstep);                            *)
(*   - lib/file.c     : the user-space file client (fsipc gateway, open,   *)
(*     flush, read, write, stat, truncate, sync).                          *)
(* Three specifications share the variables:                               *)
(*   Spec      the monitor loop reading operator lines;                    *)
(*   StepSpec  the two step handlers called directly on a trap frame;      *)
(*   FileSpec  the file client calling the filesystem server.              *)
(***************************************************************************)
EXTENDS Integers, Sequences, FiniteSets, TLC

VARIABLES
    tf,        \* the struct Trapframe the monitor was given, or NULL
    stack,     \* the kernel stack image and the value of the ebp register
    mon_pc,    \* where monitor() is: "loop", "returned", "panic", "fault"
    nread,     \* readline() calls made so far
    last,      \* what the most recent runcmd() / handler call did
    hist,      \* StepSpec: the handler calls made so far, oldest first
    fsenv,     \* fsipc's static envid_t fsenv (0: not yet resolved)
    finds,     \* ipc_find_env calls made so far
    sentTo,    \* the envids ipc_send has been called with so far
    fsipcbuf,  \* the shared page union Fsipc fsipcbuf
    fdtab,     \* the descriptor slots in use
    f_pc,      \* where the file client is: "idle", "wait", "panic"
    cur,       \* the file-client call in progress (or the last one made)
    f_ret,     \* the value the last completed file-client call returned
    ubuf,      \* the caller's buffer / struct Stat of the last call
    log        \* what the call in progress (or the last one) did, in order

monvars == <<tf, stack, mon_pc, nread, last, hist>>
filevars == <<fsenv, finds, sentTo, fsipcbuf, fdtab, f_pc, cur, f_ret, ubuf, log>>
vars == <<tf, stack, mon_pc, nread, last, hist,
          fsenv, finds, sentTo, fsipcbuf, fdtab, f_pc, cur, f_ret, ubuf, log>>

\* the null pointer: unlike every struct the model holds
NULL == [null |-> TRUE]

(***************************************************************************)
(* Bounds of the model.                                                    *)
(***************************************************************************)
\* readline() calls one monitor session is followed for
MaxLines == 3
\* handler calls one StepSpec behaviour makes
MaxCalls == 3
\* frames of the longest frame-pointer chain
MaxFrames == 2
\* the page size, scaled down from 4096 (the write header stays 8 bytes)
PGSIZE == 12
\* the path buffer size, scaled down from 1024
MAXPATHLEN == 3
\* descriptor slots, scaled down from 32
MaxFd == 2

(***************************************************************************)
(* 32-bit flag arithmetic (uint32_t eflags).                               *)
(***************************************************************************)
\* x & b # 0, for b a single bit
HasBit(x, b) == (x \div b) % 2 = 1
\* x | b
OrBit(x, b) == IF HasBit(x, b) THEN x ELSE x + b
\* x & ~b
AndNotBit(x, b) == IF HasBit(x, b) THEN x - b ELSE x

\* the trap (single-step) flag, the literal 0x100
FL_TF == 256
\* the resume flag, the literal 0x10000
FL_RF == 65536
\* the trap numbers mon_step and mon_exitstep compare with (inc/trap.h)
T_DEBUG == 1
T_BRKPT == 3

RECURSIVE SumSet(_)
SumSet(S) ==
    IF S = {} THEN 0 ELSE LET x == CHOOSE y \in S : TRUE IN x + SumSet(S \ {x})

\* the flags registers tried: every combination of CF, TF, RF and ID
FlagInputs == { SumSet(S) : S \in SUBSET {1, FL_TF, FL_RF, 2097152} }
\* the trap causes tried: divide error, debug, breakpoint, page fault
TrapInputs == {0, T_DEBUG, T_BRKPT, 14}
EipInputs == {1048576, 8388640}

Trapframes ==
    [tf_trapno : TrapInputs, tf_eflags : FlagInputs, tf_eip : EipInputs]

\* the flags with the two step bits masked out
OtherBits(x) == AndNotBit(AndNotBit(x, FL_TF), FL_RF)

(***************************************************************************)
(* Handler results.  A handler either returns (panic = "none") or does not *)
(* return: panic() was called with the named message, or a NULL trap frame *)
(* was dereferenced ("fault").  t is the trap frame afterwards.            *)
(***************************************************************************)
Res(r, t, p) == [ret |-> r, tf |-> t, panic |-> p, frames |-> <<>>]

\* dereferencing a NULL struct Trapframe * is undefined: the kernel may
\* take a page fault, or read garbage and go down either branch
NullDeref(msgs) ==
    { Res(0, NULL, "fault"), Res(-2, NULL, "none") }
        \cup { Res(0, NULL, m) : m \in msgs }

PANIC_STEP == "Not already in debugging mode when calling step"
PANIC_EXITSTEP == "Not already in debugging mode when calling exitstep"
PANIC_NOTSTEPPING == "Not in single stepping mode when calling exitstep"

\* mutant: mon_step with mon_exitstep's guard
StepRejectsAsExitstep(t) == (t.tf_trapno # T_DEBUG) /\ (t.tf_trapno = T_BRKPT)

\* mon_step's guard
StepRejects(t) == (t.tf_trapno # T_DEBUG) /\ (t.tf_trapno # T_BRKPT)

\* mutant: mon_step sets the interrupt flag 0x200 for the trap flag
StepFlagsWrongBit(eflags) == AndNotBit(OrBit(eflags, 512), FL_RF)

\* mon_step's update of the flags
StepFlags(eflags) == AndNotBit(OrBit(eflags, FL_TF), FL_RF)

mon_step(t) ==
    IF t = NULL THEN NullDeref({PANIC_STEP})
    ELSE IF StepRejects(t) THEN { Res(0, t, PANIC_STEP) }
    ELSE { Res(-2, [t EXCEPT !.tf_eflags = StepFlags(t.tf_eflags)], "none") }

\* mon_exitstep's first guard, as written
ExitstepRejects(t) == (t.tf_trapno # T_DEBUG) /\ (t.tf_trapno = T_BRKPT)

\* mutant: mon_exitstep tests the resume flag for the trap flag
NotSteppingWrongBit(t) == ~HasBit(t.tf_eflags, FL_RF)

\* mon_exitstep's second guard
NotStepping(t) == ~HasBit(t.tf_eflags, FL_TF)

\* mutant: mon_exitstep with mon_step's update
ExitstepFlagsAsStep(eflags) == AndNotBit(OrBit(eflags, FL_TF), FL_RF)

\* mon_exitstep's update of the flags
ExitstepFlags(eflags) == AndNotBit(OrBit(eflags, FL_RF), FL_TF)

mon_exitstep(t) ==
    IF t = NULL THEN NullDeref({PANIC_EXITSTEP, PANIC_NOTSTEPPING})
    ELSE IF ExitstepRejects(t) THEN { Res(0, t, PANIC_EXITSTEP) }
    ELSE IF NotStepping(t) THEN { Res(0, t, PANIC_NOTSTEPPING) }
    ELSE { Res(-2, [t EXCEPT !.tf_eflags = ExitstepFlags(t.tf_eflags)], "none") }

mon_help(t) == { Res(0, t, "none") }

\* mutant: kerninfo returns the exit sentinel
mon_kerninfoExits(t) == { Res(-1, t, "none") }

mon_kerninfo(t) == { Res(0, t, "none") }

(***************************************************************************)
(* mon_backtrace.  The stack is a memory image (address -> 32-bit word)    *)
(* with the ebp register; syms maps the return addresses debuginfo_eip     *)
(* resolves to the start address of their function.                       *)
(***************************************************************************)
PANIC_BACKTRACE == "Address not found in mon_backtrace"

\* mutant: the five argument words read one word too low
FrameLineArgsShifted(ebp, st) ==
    [ebp |-> ebp,
     eip |-> st.mem[ebp + 4],
     args |-> <<st.mem[ebp + 4], st.mem[ebp + 8], st.mem[ebp + 12],
                st.mem[ebp + 16], st.mem[ebp + 20]>>,
     off |-> st.mem[ebp + 4] - st.syms[st.mem[ebp + 4]]]

\* the line mon_backtrace prints for the frame at ebp
FrameLine(ebp, st) ==
    [ebp |-> ebp,
     eip |-> st.mem[ebp + 4],
     args |-> <<st.mem[ebp + 8], st.mem[ebp + 12], st.mem[ebp + 16],
                st.mem[ebp + 20], st.mem[ebp + 24]>>,
     off |-> st.mem[ebp + 4] - st.syms[st.mem[ebp + 4]]]

\* mutant: a return address that does not resolve ends the walk with a
\* return instead of a panic
RECURSIVE UnwindReturnsOnFailure(_, _, _, _)
UnwindReturnsOnFailure(ebp, st, t, out) ==
    IF ebp = 0 THEN [Res(0, t, "none") EXCEPT !.frames = out]
    ELSE IF st.mem[ebp + 4] \notin DOMAIN st.syms
         THEN [Res(0, t, "none") EXCEPT !.frames = out]
    ELSE UnwindReturnsOnFailure(st.mem[ebp], st, t, Append(out, FrameLine(ebp, st)))

\* the loop of mon_backtrace from the frame at ebp, out being the lines
\* printed so far
RECURSIVE Unwind(_, _, _, _)
Unwind(ebp, st, t, out) ==
    IF ebp = 0 THEN [Res(0, t, "none") EXCEPT !.frames = out]
    ELSE IF st.mem[ebp + 4] \notin DOMAIN st.syms
         THEN [Res(0, t, PANIC_BACKTRACE) EXCEPT !.frames = out]
    ELSE Unwind(st.mem[ebp], st, t, Append(out, FrameLine(ebp, st)))

mon_backtrace(t, st) == { Unwind(st.ebp, st, t, <<>>) }

\* the address of the i-th frame of a chain (1 = innermost)
FrameAddr(i) == 61440 + 32 * i
\* the return address stored in the i-th frame
RetAddr(i) == 1048576 + 64 * i

\* a well-formed chain of k frames ending in a zero link, of which the
\* return addresses of the frames in bad do not resolve
StackImage(k, bad) ==
    [ebp |-> IF k = 0 THEN 0 ELSE FrameAddr(1),
     mem |-> [a \in UNION { { FrameAddr(i) + 4 * w : w \in 0..6 } : i \in 1..k } |->
                LET i == (a - 61440) \div 32
                    w == ((a - 61440) % 32) \div 4
                IN IF w = 0 THEN (IF i = k THEN 0 ELSE FrameAddr(i + 1))
                   ELSE IF w = 1 THEN RetAddr(i)
                   ELSE 1000 * i + w],
     syms |-> [e \in { RetAddr(i) : i \in (1..k) \ bad } |-> e - 16 - (e % 7)]]

StackInputs == UNION { { StackImage(k, bad) : bad \in SUBSET (1..k) } : k \in 0..MaxFrames }

(***************************************************************************)
(* runcmd: the tokenizer and the dispatcher.  A line is a sequence of      *)
(* one-character strings; NUL is the C string terminator the tokenizer     *)
(* writes over the whitespace it skips.                                    *)
(***************************************************************************)
NUL == "NUL"
\* mutant: carriage return is not a separator
WhitespaceNoCR == {"\t", "\n", " "}
WHITESPACE == {"\t", "\r", "\n", " "}
MAXARGS == 16

\* *buf == 0 at index i (one past the end is the terminator)
IsEnd(b, i) == i > Len(b) \/ b[i] = NUL

\* while (*buf && strchr(WHITESPACE, *buf)) buf++
RECURSIVE SkipWs(_, _)
SkipWs(b, i) ==
    IF ~IsEnd(b, i) /\ b[i] \in WHITESPACE THEN SkipWs(b, i + 1) ELSE i

\* while (*buf && !strchr(WHITESPACE, *buf)) buf++
RECURSIVE SkipTok(_, _)
SkipTok(b, i) ==
    IF ~IsEnd(b, i) /\ b[i] \notin WHITESPACE THEN SkipTok(b, i + 1) ELSE i

\* mutant: the test for a full argv one slot late
ArgvFullLate(argc) == argc = MAXARGS

\* the tokenizer's test for a full argv
ArgvFull(argc) == argc = MAXARGS - 1

\* the parse loop from buf = i with the token starts argv collected so far
RECURSIVE Parse(_, _, _)
Parse(b, i, argv) ==
    LET j == SkipWs(b, i)
        b1 == [k \in 1..Len(b) |-> IF k >= i /\ k < j THEN NUL ELSE b[k]]
    IN IF IsEnd(b1, j) THEN [tooMany |-> FALSE, buf |-> b1, argv |-> argv]
       ELSE IF ArgvFull(Len(argv))
            THEN [tooMany |-> TRUE, buf |-> b1, argv |-> argv]
       ELSE Parse(b1, SkipTok(b1, j), Append(argv, j))

\* the indices of char *argv[MAXARGS] the parse p wrote: argv[0] = 0 before
\* the loop, argv[argc++] = buf for each token taken, and argv[argc] = 0
\* after the loop, which the "Too many arguments" return does not reach
ArgvWrites(p) ==
    {0} \cup { k - 1 : k \in 1..Len(p.argv) }
        \cup (IF p.tooMany THEN {} ELSE {Len(p.argv)})

\* the C string that starts at index p of b
RECURSIVE CStr(_, _)
CStr(b, p) == IF IsEnd(b, p) THEN <<>> ELSE <<b[p]>> \o CStr(b, p + 1)

commands ==
    << [name |-> <<"h","e","l","p">>, func |-> "mon_help"],
       [name |-> <<"k","e","r","n","i","n","f","o">>, func |-> "mon_kerninfo"],
       [name |-> <<"b","a","c","k","t","r","a","c","e">>, func |-> "mon_backtrace"],
       [name |-> <<"s","t","e","p">>, func |-> "mon_step"],
       [name |-> <<"e","x","i","t","s","t","e","p">>, func |-> "mon_exitstep"] >>

\* commands[i].func(argc, argv, tf)
CallHandler(func, t, st) ==
    CASE func = "mon_help" -> mon_help(t)
      [] func = "mon_kerninfo" -> mon_kerninfo(t)
      [] func = "mon_backtrace" -> mon_backtrace(t, st)
      [] func = "mon_step" -> mon_step(t)
      [] func = "mon_exitstep" -> mon_exitstep(t)

\* mutant: a token is matched on the length of the command's name only
LookupPrefix(name) ==
    LET m == { i \in 1..Len(commands) :
                 /\ Len(name) >= Len(commands[i].name)
                 /\ SubSeq(name, 1, Len(commands[i].name)) = commands[i].name }
    IN IF m = {} THEN 0 ELSE CHOOSE i \in m : \A k \in m : i <= k

\* the index of the first command named name, 0 if there is none
Lookup(name) ==
    LET m == { i \in 1..Len(commands) : commands[i].name = name }
    IN IF m = {} THEN 0 ELSE CHOOSE i \in m : \A k \in m : i <= k

\* what one runcmd call did: the handler's result o, the diagnostic
\* printed with its %d argument dn (0: none), the handler called, the tokens
\* it was given and the argv indices written
Ran(o, d, dn, f, toks, wr) ==
    [ret |-> o.ret, tf |-> o.tf, panic |-> o.panic, frames |-> o.frames,
     diag |-> d, diagmax |-> dn, called |-> f, argv |-> toks, wr |-> wr]

runcmd(buf, t, st) ==
    LET p == Parse(buf, 1, <<>>)
        toks == [k \in 1..Len(p.argv) |-> CStr(p.buf, p.argv[k])]
    IN IF p.tooMany
       THEN { Ran(Res(0, t, "none"), "Too many arguments (max %d)", MAXARGS,
                  "none", <<>>, ArgvWrites(p)) }
       ELSE IF Len(p.argv) = 0
       THEN { Ran(Res(0, t, "none"), "none", 0, "none", <<>>, ArgvWrites(p)) }
       ELSE IF Lookup(toks[1]) = 0
       THEN { Ran(Res(0, t, "none"), "Unknown command '%s'", 0, "none", toks,
                  ArgvWrites(p)) }
       ELSE { Ran(o, "none", 0, commands[Lookup(toks[1])].func, toks,
                  ArgvWrites(p)) :
                o \in CallHandler(commands[Lookup(toks[1])].func, t, st) }

\* n copies of the line w
RECURSIVE Rep(_, _)
Rep(w, n) == IF n = 0 THEN <<>> ELSE w \o Rep(w, n - 1)

\* the operator's lines tried
Lines ==
    { <<>>,
      <<" ", "\t", " ">>,
      <<"h","e","l","p">>,
      <<"k","e","r","n","i","n","f","o">>,
      <<"b","a","c","k","t","r","a","c","e">>,
      <<"s","t","e","p">>,
      <<"e","x","i","t","s","t","e","p">>,
      <<" ", "s","t","e","p", "\t", "\n">>,
      <<"e","x","i","t","s","t","e","p", " ", " ", "n","o","w">>,
      <<"S","t","e","p">>,
      <<"s","t","e">>,
      <<"s","t","e","p","s">>,
      <<"q","u","i","t">>,
      <<"\r", "\n", "h","e","l","p", "\t", "\r", "m","e", " ", "\n">>,
      <<"s","t","e","p">> \o Rep(<<" ", "a">>, MAXARGS - 2),
      <<"s","t","e","p">> \o Rep(<<" ", "a">>, MAXARGS - 1),
      <<"s","t","e","p">> \o Rep(<<"\r", "a">>, MAXARGS) }

(***************************************************************************)
(* monitor(): the read-dispatch loop.                                      *)
(***************************************************************************)
\* mutant: the loop leaves on the exit sentinel only
MonitorBreaksOnExitOnly(r) == r = -1

\* the loop's exit test on runcmd's value
MonitorBreaks(r) == r < 0

NoCall ==
    [line |-> <<>>, pre |-> NULL, ret |-> 0, panic |-> "none", frames |-> <<>>,
     diag |-> "none", diagmax |-> 0, called |-> "none", argv |-> <<>>, wr |-> {}]

MonInit ==
    /\ tf \in Trapframes \cup {NULL}
    /\ stack \in StackInputs
    /\ mon_pc = "loop"
    /\ nread = 0
    /\ last = NoCall
    /\ hist = <<>>

\* one iteration: readline returned line, runcmd ran it
ReadLine(line) ==
    /\ mon_pc = "loop"
    /\ nread < MaxLines
    /\ \E o \in runcmd(line, tf, stack) :
        /\ tf' = o.tf
        /\ last' = [line |-> line, pre |-> tf, ret |-> o.ret, panic |-> o.panic,
                    frames |-> o.frames, diag |-> o.diag, diagmax |-> o.diagmax,
                    called |-> o.called, argv |-> o.argv, wr |-> o.wr]
        /\ mon_pc' = IF o.panic = "fault" THEN "fault"
                     ELSE IF o.panic # "none" THEN "panic"
                     ELSE IF MonitorBreaks(o.ret) THEN "returned"
                     ELSE "loop"
    /\ nread' = nread + 1
    /\ UNCHANGED <<stack, hist>>
    /\ UNCHANGED filevars

\* one iteration: readline returned NULL, nothing is dispatched
ReadNull ==
    /\ mon_pc = "loop"
    /\ nread < MaxLines
    /\ nread' = nread + 1
    /\ UNCHANGED <<tf, stack, mon_pc, last, hist>>
    /\ UNCHANGED filevars

(***************************************************************************)
(* The step handlers called directly, one after the other, on one trap     *)
(* frame (as the trap path does when a resumed program traps again).       *)
(***************************************************************************)
StepInit ==
    /\ tf \in Trapframes \cup {NULL}
    /\ stack = StackImage(0, {})
    /\ mon_pc = "loop"
    /\ nread = 0
    /\ last = NoCall
    /\ hist = <<>>

Stopped == hist # <<>> /\ hist[Len(hist)].panic # "none"

Called(op, o) ==
    /\ tf' = o.tf
    /\ hist' = Append(hist, [op |-> op, pre |-> tf, post |-> o.tf,
                             ret |-> o.ret, panic |-> o.panic])
    /\ UNCHANGED <<stack, mon_pc, nread, last>>
    /\ UNCHANGED filevars

CallStep ==
    /\ Len(hist) < MaxCalls
    /\ ~Stopped
    /\ \E o \in mon_step(tf) : Called("step", o)

CallExitstep ==
    /\ Len(hist) < MaxCalls
    /\ ~Stopped
    /\ \E o \in mon_exitstep(tf) : Called("exitstep", o)

(***************************************************************************)
(* The file client.  What lies outside lib/file.c is modelled from its     *)
(* contract: the descriptor allocator (fd_alloc, fd_close, fd2num), server *)
(* discovery (ipc_find_env), the transport (ipc_send, ipc_recv) and the    *)
(* filesystem server, which may answer a request with any value.           *)
(***************************************************************************)
\* sizeof(int) + sizeof(size_t), the header of the write record
WriteHdr == 8
E_BAD_PATH == 12
E_MAX_OPEN == 10
\* the envid of the filesystem server
FS_ENVID == 4097

Min(a, b) == IF a < b THEN a ELSE b
Max(a, b) == IF a > b THEN a ELSE b

\* ipc_find_env(ENV_TYPE_FS)
ipc_find_env == FS_ENVID

\* fd_alloc(&fd): the lowest free slot, or -E_MAX_OPEN
fd_alloc(tab) ==
    LET free == (0..(MaxFd - 1)) \ DOMAIN tab
    IN IF free = {} THEN -E_MAX_OPEN ELSE CHOOSE i \in free : \A k \in free : i <= k

\* the table with slot fd taken, its file id not yet assigned
FdTake(tab, fd) == [i \in DOMAIN tab \cup {fd} |-> IF i = fd THEN 0 ELSE tab[i]]

\* the table with slot fd released
FdDrop(tab, fd) == [i \in DOMAIN tab \ {fd} |-> tab[i]]

\* the table after the external calls evs, in order
RECURSIVE FdApply(_, _)
FdApply(tab, evs) ==
    IF evs = <<>> THEN tab
    ELSE FdApply(IF Head(evs).ev = "fd_close" THEN FdDrop(tab, Head(evs).fd) ELSE tab,
                 Tail(evs))

\* the caller's buffers tried: n bytes, in one of two patterns
UserBuf(n, pat) == [k \in 1..n |-> 50 * pat + k]
\* the pages and the stat replies the server may leave in the shared page
ServerPages == { [k \in 1..PGSIZE |-> 100 * pat + k] : pat \in 1..2 }
ServerStats ==
    { [st_name |-> <<"f">>, st_size |-> 2, st_isdir |-> 0],
      [st_name |-> <<"d", "i", "r">>, st_size |-> 0, st_isdir |-> 1] }
\* the values the server may answer with
ServerErrors == {-15, -11, -1}
ServerReplies == ServerErrors \cup (0..(PGSIZE + 2))
\* the same for a request that has no count to answer with: an error,
\* zero, or a positive value
ServerStatus == ServerErrors \cup {0, 1}
\* the arguments tried
Sizes == 0..(PGSIZE + 2)
Paths ==
    UNION { { [k \in 1..l |-> "f"], [k \in 1..l |-> IF k = 1 THEN "/" ELSE "f"] } :
            l \in 0..(MAXPATHLEN + 1) }
Modes == {0, 1}
FileIds == {1, 2}

NoCur == [op |-> "none", fd |-> -1, n |-> 0, buf |-> <<>>, path |-> <<>>, mode |-> 0]
NoStat == [st_name |-> <<>>, st_size |-> -1, st_isdir |-> -1]

FileInit ==
    /\ fsenv = 0
    /\ finds = 0
    /\ sentTo = {}
    /\ fsipcbuf = [kind |-> "none"]
    /\ fdtab = <<>>
    /\ f_pc = "idle"
    /\ cur = NoCur
    /\ f_ret = 0
    /\ ubuf = <<>>
    /\ log = <<>>

\* mutant: fsipc looks the server up on every call
UnresolvedAlways(e) == TRUE

\* fsipc's test that the server is not yet resolved
Unresolved(e) == e = 0

\* mutant: fsipc sends the request twice
fsipc_eventsResend(type, dstva, page) ==
    << [ev |-> "ipc_send", to |-> fsenv,
        type |-> type, page |-> page, dstva |-> dstva],
       [ev |-> "ipc_send", to |-> fsenv,
        type |-> type, page |-> page, dstva |-> dstva] >>

\* fsipc up to and including ipc_send: the events it adds to the call's
\* log, given the page sent
fsipc_events(type, dstva, page) ==
    (IF Unresolved(fsenv) THEN <<[ev |-> "ipc_find_env"]>> ELSE <<>>)
        \o << [ev |-> "ipc_send",
               to |-> IF Unresolved(fsenv) THEN ipc_find_env ELSE fsenv,
               type |-> type, page |-> page, dstva |-> dstva] >>

\* fsipc(type, dstva) with the request page in fsipcbuf', after the
\* events before of this call: send, then block in ipc_recv
fsipc(type, dstva, before) ==
    /\ fsenv' = IF Unresolved(fsenv) THEN ipc_find_env ELSE fsenv
    /\ finds' = IF Unresolved(fsenv) THEN finds + 1 ELSE finds
    /\ sentTo' = sentTo \cup {fsenv'}
    /\ log' = before \o fsipc_events(type, dstva, fsipcbuf')
    /\ f_pc' = "wait"

\* mutant: only results below -1 are taken as errors
FailedBelowMinusOne(r) == r < -1

\* the test (r = fsipc(...)) < 0 made by open, devfile_read, devfile_write
\* and devfile_stat
Failed(r) == r < 0

\* a call returns r to its caller
Return(r) ==
    /\ f_ret' = r
    /\ f_pc' = "idle"

\* mutant: the length check off by one
PathTooLongOffByOne(path) == Len(path) > MAXPATHLEN

\* open's length check
PathTooLong(path) == Len(path) >= MAXPATHLEN

\* mutant: open forgets the descriptor when fsipc failed
OpenOnFailureLeak(fd) == <<>>

\* what open does with the descriptor when fsipc failed
OpenOnFailure(fd) == << [ev |-> "fd_close", fd |-> fd, must_exist |-> 0] >>

\* the request open writes into the shared page
OpenRequest(path, mode) == [kind |-> "open", req_path |-> path, req_omode |-> mode]

open(path, mode) ==
    /\ f_pc = "idle"
    /\ ubuf' = <<>>
    /\ IF PathTooLong(path)
       THEN /\ cur' = [NoCur EXCEPT !.op = "open", !.path = path, !.mode = mode]
            /\ log' = <<>>
            /\ Return(-E_BAD_PATH)
            /\ UNCHANGED <<fsenv, finds, sentTo, fsipcbuf, fdtab>>
       ELSE IF fd_alloc(fdtab) < 0
       THEN /\ cur' = [NoCur EXCEPT !.op = "open", !.path = path, !.mode = mode]
            /\ log' = << [ev |-> "fd_alloc", r |-> fd_alloc(fdtab)] >>
            /\ Return(fd_alloc(fdtab))
            /\ UNCHANGED <<fsenv, finds, sentTo, fsipcbuf, fdtab>>
       ELSE /\ cur' = [NoCur EXCEPT !.op = "open", !.path = path, !.mode = mode,
                                    !.fd = fd_alloc(fdtab)]
            /\ fdtab' = FdTake(fdtab, fd_alloc(fdtab))
            /\ fsipcbuf' = OpenRequest(path, mode)
            /\ fsipc("FSREQ_OPEN", [fd |-> fd_alloc(fdtab)],
                     << [ev |-> "fd_alloc", r |-> 0],
                        [ev |-> "write_fsipcbuf"] >>)
            /\ UNCHANGED f_ret
    /\ UNCHANGED monvars

\* ipc_recv returned r to open; on success the server mapped the
\* descriptor page, carrying the file id
open_reply(r, id) ==
    /\ f_pc = "wait"
    /\ cur.op = "open"
    /\ IF Failed(r)
       THEN /\ log' = log \o << [ev |-> "ipc_recv", r |-> r] >> \o OpenOnFailure(cur.fd)
            /\ fdtab' = FdApply(fdtab, OpenOnFailure(cur.fd))
            /\ Return(r)
       ELSE /\ log' = Append(log, [ev |-> "ipc_recv", r |-> r])
            /\ fdtab' = [fdtab EXCEPT ![cur.fd] = id]
            /\ Return(cur.fd)
    /\ UNCHANGED <<fsenv, finds, sentTo, fsipcbuf, cur, ubuf>>
    /\ UNCHANGED monvars

\* a call on an open descriptor starts: fd is a slot whose open succeeded
Starts(op, fd, n, buf) ==
    /\ f_pc = "idle"
    /\ fd \in DOMAIN fdtab
    /\ cur' = [NoCur EXCEPT !.op = op, !.fd = fd, !.n = n, !.buf = buf]

\* devfile_flush, called by fd_close(fd, 1) when the descriptor is closed
devfile_flush(fd) ==
    /\ Starts("flush", fd, 0, <<>>)
    /\ ubuf' = <<>>
    /\ fsipcbuf' = [kind |-> "flush", req_fileid |-> fdtab[fd]]
    /\ fsipc("FSREQ_FLUSH", NULL, << [ev |-> "write_fsipcbuf"] >>)
    /\ UNCHANGED <<fdtab, f_ret>>
    /\ UNCHANGED monvars

\* devfile_flush returns r; fd_close then unmaps the descriptor page
flush_reply(r) ==
    /\ f_pc = "wait"
    /\ cur.op = "flush"
    /\ log' = Append(log, [ev |-> "ipc_recv", r |-> r])
    /\ fdtab' = FdDrop(fdtab, cur.fd)
    /\ Return(r)
    /\ UNCHANGED <<fsenv, finds, sentTo, fsipcbuf, cur, ubuf>>
    /\ UNCHANGED monvars

\* memmove(dst, src, r) / memcpy: dst with its first r bytes taken from
\* src; bytes past the end of dst are an overrun, bytes past the end of
\* src are whatever follows it in memory ("?")
MemMove(dst, src, r) ==
    [k \in 1..Max(Len(dst), r) |->
        IF k <= r THEN (IF k <= Len(src) THEN src[k] ELSE "?") ELSE dst[k]]

\* mutant: devfile_read limits the count it asks for to one page
ReadLenClamped(n) == Min(n, PGSIZE)

\* the count devfile_read puts in the request
ReadLen(n) == n

devfile_read(fd, n) ==
    /\ Starts("read", fd, n, <<>>)
    /\ ubuf' = [k \in 1..n |-> 0]
    /\ fsipcbuf' = [kind |-> "read", req_fileid |-> fdtab[fd], req_n |-> ReadLen(n)]
    /\ fsipc("FSREQ_READ", NULL, << [ev |-> "write_fsipcbuf"] >>)
    /\ UNCHANGED <<fdtab, f_ret>>
    /\ UNCHANGED monvars

\* mutant: devfile_read without the assertion r <= n
ReadAssertsPageOnly(r, n) == r <= PGSIZE

\* the two assertions devfile_read makes on a non-negative result
ReadAsserts(r, n) == r <= n /\ r <= PGSIZE

\* ipc_recv returned r to devfile_read; the server left page in fsipcbuf
read_reply(r, page) ==
    /\ f_pc = "wait"
    /\ cur.op = "read"
    /\ log' = Append(log, [ev |-> "ipc_recv", r |-> r])
    /\ fsipcbuf' = IF Failed(r) THEN fsipcbuf ELSE [kind |-> "readRet", ret_buf |-> page]
    /\ IF Failed(r) THEN Return(r) /\ UNCHANGED ubuf
       ELSE IF ~ReadAsserts(r, cur.n)
       THEN f_pc' = "panic" /\ UNCHANGED <<f_ret, ubuf>>
       ELSE ubuf' = MemMove(ubuf, page, r) /\ Return(r)
    /\ UNCHANGED <<fsenv, finds, sentTo, fdtab, cur>>
    /\ UNCHANGED monvars

\* max_buf_size
WriteCapacity == PGSIZE - WriteHdr

\* mutant: devfile_write without the truncation
WriteLenUnclamped(n) == n

\* the length devfile_write puts in the request
WriteLen(n) == IF n > WriteCapacity THEN WriteCapacity ELSE n

devfile_write(fd, buf, n) ==
    /\ Starts("write", fd, n, buf)
    /\ ubuf' = <<>>
    /\ fsipcbuf' = [kind |-> "write", req_fileid |-> fdtab[fd], req_n |-> WriteLen(n),
                    req_buf |-> MemMove(<<>>, buf, WriteLen(n))]
    /\ fsipc("FSREQ_WRITE", NULL, << [ev |-> "write_fsipcbuf"] >>)
    /\ UNCHANGED <<fdtab, f_ret>>
    /\ UNCHANGED monvars

\* the two assertions devfile_write makes on a non-negative result
WriteAsserts(r, n) == r <= n /\ r <= PGSIZE

write_reply(r) ==
    /\ f_pc = "wait"
    /\ cur.op = "write"
    /\ log' = Append(log, [ev |-> "ipc_recv", r |-> r])
    /\ IF Failed(r) THEN Return(r)
       ELSE IF ~WriteAsserts(r, cur.n) THEN f_pc' = "panic" /\ UNCHANGED f_ret
       ELSE Return(r)
    /\ UNCHANGED <<fsenv, finds, sentTo, fsipcbuf, fdtab, cur, ubuf>>
    /\ UNCHANGED monvars

devfile_stat(fd) ==
    /\ Starts("stat", fd, 0, <<>>)
    /\ ubuf' = NoStat
    /\ fsipcbuf' = [kind |-> "stat", req_fileid |-> fdtab[fd]]
    /\ fsipc("FSREQ_STAT", NULL, << [ev |-> "write_fsipcbuf"] >>)
    /\ UNCHANGED <<fdtab, f_ret>>
    /\ UNCHANGED monvars

\* ipc_recv returned r to devfile_stat; the server left st in fsipcbuf
stat_reply(r, st) ==
    /\ f_pc = "wait"
    /\ cur.op = "stat"
    /\ log' = Append(log, [ev |-> "ipc_recv", r |-> r])
    /\ fsipcbuf' = IF Failed(r) THEN fsipcbuf
                   ELSE [kind |-> "statRet", ret_name |-> st.st_name,
                         ret_size |-> st.st_size, ret_isdir |-> st.st_isdir]
    /\ IF Failed(r) THEN Return(r) /\ UNCHANGED ubuf
       ELSE /\ ubuf' = [st_name |-> st.st_name, st_size |-> st.st_size,
                        st_isdir |-> st.st_isdir]
            /\ Return(0)
    /\ UNCHANGED <<fsenv, finds, sentTo, fdtab, cur>>
    /\ UNCHANGED monvars

devfile_trunc(fd, newsize) ==
    /\ Starts("trunc", fd, newsize, <<>>)
    /\ ubuf' = <<>>
    /\ fsipcbuf' = [kind |-> "set_size", req_fileid |-> fdtab[fd], req_size |-> newsize]
    /\ fsipc("FSREQ_SET_SIZE", NULL, << [ev |-> "write_fsipcbuf"] >>)
    /\ UNCHANGED <<fdtab, f_ret>>
    /\ UNCHANGED monvars

sync ==
    /\ f_pc = "idle"
    /\ cur' = [NoCur EXCEPT !.op = "sync"]
    /\ ubuf' = <<>>
    /\ fsipcbuf' = fsipcbuf
    /\ fsipc("FSREQ_SYNC", NULL, <<>>)
    /\ UNCHANGED <<fdtab, f_ret>>
    /\ UNCHANGED monvars

\* devfile_trunc and sync return fsipc's value as it is
plain_reply(r) ==
    /\ f_pc = "wait"
    /\ cur.op \in {"trunc", "sync"}
    /\ log' = Append(log, [ev |-> "ipc_recv", r |-> r])
    /\ Return(r)
    /\ UNCHANGED <<fsenv, finds, sentTo, fsipcbuf, fdtab, cur, ubuf>>
    /\ UNCHANGED monvars

(***************************************************************************)
(* The three specifications.                                               *)
(***************************************************************************)
Init == MonInit /\ FileInit

Next ==
    \/ \E line \in Lines : ReadLine(line)
    \/ ReadNull

Spec == Init /\ [][Next]_vars

StepNext ==
    \/ CallStep
    \/ CallExitstep

StepSpecInit == StepInit /\ FileInit

StepSpec == StepSpecInit /\ [][StepNext]_vars

FileNext ==
    \/ \E path \in Paths, mode \in Modes : open(path, mode)
    \/ \E r \in ServerStatus, id \in FileIds : open_reply(r, id)
    \/ \E fd \in DOMAIN fdtab : devfile_flush(fd)
    \/ \E r \in ServerStatus : flush_reply(r)
    \/ \E fd \in DOMAIN fdtab, n \in Sizes : devfile_read(fd, n)
    \/ \E r \in ServerReplies, page \in ServerPages : read_reply(r, page)
    \/ \E fd \in DOMAIN fdtab, n \in Sizes, pat \in 1..2 :
            devfile_write(fd, UserBuf(n, pat), n)
    \/ \E r \in ServerReplies : write_reply(r)
    \/ \E fd \in DOMAIN fdtab : devfile_stat(fd)
    \/ \E r \in ServerStatus, st \in ServerStats : stat_reply(r, st)
    \/ \E fd \in DOMAIN fdtab, newsize \in {0, 5} : devfile_trunc(fd, newsize)
    \/ sync
    \/ \E r \in ServerStatus : plain_reply(r)

FileSpecInit ==
    /\ tf = NULL /\ stack = StackImage(0, {}) /\ mon_pc = "loop" /\ nread = 0
    /\ last = NoCall /\ hist = <<>>
    /\ FileInit

FileSpec == FileSpecInit /\ [][FileNext]_vars

(***************************************************************************)
(* The claims.                                                             *)
(***************************************************************************)
\* the handler calls of a StepSpec behaviour made on a trap frame
StepCalls == { i \in 1..Len(hist) : hist[i].pre # NULL }
DebugTraps == {T_DEBUG, T_BRKPT}

\* C1, as stated, where the last command dispatched was step on a trap
\* frame: the monitor loop has ended only if a dispatched command returned
\* the exit sentinel -1; it does not end on the resume sentinel -2.
C1_EndsOnlyOnExitSentinel ==
    (mon_pc = "returned" /\ tf # NULL /\ last.called = "mon_step") => last.ret = -1

\* C1, amended: the monitor loop has ended exactly when the last dispatched
\* command returned a negative value; the resume sentinel -2 of step and
\* exitstep ends it just as -1 would.
C1_EndsOnAnyNegative == (mon_pc = "returned") <=> (last.ret < 0)

\* C1 witness: the loop has ended after step returned -2
C1_Witness ==
    mon_pc = "returned" /\ last.called = "mon_step" /\ last.ret = -2 /\ tf # NULL

\* a successful step on a trap frame, directly followed by exitstep
StepExitstepPairs ==
    { i \in StepCalls : /\ i < Len(hist)
                        /\ hist[i].op = "step" /\ hist[i].panic = "none"
                        /\ hist[i + 1].op = "exitstep" }

\* C2, as stated: after step succeeded, step followed by exitstep leaves the
\* flags register equal to its value before step.
C2_RoundTrip ==
    \A i \in StepExitstepPairs :
        hist[i + 1].post.tf_eflags = hist[i].pre.tf_eflags

\* C2, amended: step followed by exitstep leaves every flag bit other than
\* the trap flag and the resume flag as it was before step; when exitstep
\* completes the trap flag is clear and the resume flag is set, whatever
\* they were before step, and when exitstep is rejected they stay as step
\* left them (trap flag set, resume flag clear).
C2_StepThenExitstep ==
    \A i \in StepExitstepPairs :
        /\ OtherBits(hist[i + 1].post.tf_eflags) = OtherBits(hist[i].pre.tf_eflags)
        /\ hist[i + 1].panic = "none" =>
                /\ ~HasBit(hist[i + 1].post.tf_eflags, FL_TF)
                /\ HasBit(hist[i + 1].post.tf_eflags, FL_RF)
        /\ hist[i + 1].panic # "none" =>
                /\ HasBit(hist[i + 1].post.tf_eflags, FL_TF)
                /\ ~HasBit(hist[i + 1].post.tf_eflags, FL_RF)

\* C2 witness: step then exitstep both completed and the flags differ from
\* the original ones
C2_Witness ==
    \E i \in StepExitstepPairs :
        /\ hist[i + 1].panic = "none"
        /\ hist[i + 1].post.tf_eflags # hist[i].pre.tf_eflags

\* C3: a call of step or exitstep changes no bit of the flags register
\* other than the trap flag and the resume flag, and leaves the trap cause
\* and the rest of the execution context as they were.
C3_OnlyStepBitsChange ==
    \A i \in StepCalls :
        /\ OtherBits(hist[i].post.tf_eflags) = OtherBits(hist[i].pre.tf_eflags)
        /\ hist[i].post.tf_trapno = hist[i].pre.tf_trapno
        /\ hist[i].post.tf_eip = hist[i].pre.tf_eip

\* C3 witness: step and exitstep have both changed the flags of a trap
\* frame that had other bits set
C3_Witness ==
    /\ \E i \in StepCalls : hist[i].op = "step" /\ hist[i].post # hist[i].pre
    /\ \E i \in StepCalls : hist[i].op = "exitstep" /\ hist[i].post # hist[i].pre
    /\ tf # NULL /\ HasBit(tf.tf_eflags, 1) /\ HasBit(tf.tf_eflags, 2097152)

\* C4: step is a fatal error, the trap frame left as it was, exactly when
\* the trap cause is neither debug nor breakpoint; otherwise it sets the
\* trap flag, clears the resume flag and returns -2.
C4_StepContract ==
    \A i \in StepCalls :
        hist[i].op = "step" =>
            IF hist[i].pre.tf_trapno \notin DebugTraps
            THEN hist[i].panic = PANIC_STEP /\ hist[i].post = hist[i].pre
            ELSE /\ hist[i].panic = "none"
                 /\ hist[i].ret = -2
                 /\ HasBit(hist[i].post.tf_eflags, FL_TF)
                 /\ ~HasBit(hist[i].post.tf_eflags, FL_RF)

\* C4 witness: step was rejected on a page-fault trap frame
C4_Witness ==
    \E i \in StepCalls :
        /\ hist[i].op = "step" /\ hist[i].panic = PANIC_STEP
        /\ hist[i].pre.tf_trapno = 14

\* C5, as stated: exitstep is a fatal error whenever the trap cause is
\* neither debug nor breakpoint, is not rejected on trap-cause grounds when
\* it is debug or breakpoint, and with the trap flag set it then completes
\* and returns -2.
C5_ExitstepSharesPrecondition ==
    \A i \in StepCalls :
        hist[i].op = "exitstep" =>
            IF hist[i].pre.tf_trapno \notin DebugTraps
            THEN hist[i].panic # "none"
            ELSE /\ hist[i].panic # PANIC_EXITSTEP
                 /\ HasBit(hist[i].pre.tf_eflags, FL_TF) =>
                        hist[i].panic = "none" /\ hist[i].ret = -2

\* C6: exitstep on a trap frame whose trap flag is clear is a fatal error
\* and leaves the flags as they were; with the trap flag set and the
\* trap-cause check of mon_exitstep passed, it clears the trap flag, sets
\* the resume flag and returns -2.
C6_ExitstepNeedsTrapFlag ==
    \A i \in StepCalls :
        hist[i].op = "exitstep" =>
            IF ~HasBit(hist[i].pre.tf_eflags, FL_TF)
            THEN hist[i].panic # "none" /\ hist[i].post = hist[i].pre
            ELSE hist[i].panic # PANIC_EXITSTEP =>
                    /\ hist[i].panic = "none"
                    /\ hist[i].ret = -2
                    /\ ~HasBit(hist[i].post.tf_eflags, FL_TF)
                    /\ HasBit(hist[i].post.tf_eflags, FL_RF)

\* C6 witness: exitstep without a prior step, on a debug trap frame whose
\* trap flag is clear, was rejected as not single-stepping
C6_Witness ==
    /\ Len(hist) = 1 /\ hist[1].op = "exitstep" /\ hist[1].pre # NULL
    /\ hist[1].pre.tf_trapno = T_DEBUG
    /\ hist[1].panic = PANIC_NOTSTEPPING

\* the requests the call in progress (or the last call) has sent
Sends == { i \in 1..Len(log) : log[i].ev = "ipc_send" }
\* the places of the other events in its log
Events(ev) == { i \in 1..Len(log) : log[i].ev = ev }

\* C7: open with a path of MAXPATHLEN characters or more returns
\* -E_BAD_PATH without calling the descriptor allocator, writing the request
\* buffer or sending a request; a shorter path (MAXPATHLEN-1 included) is
\* not rejected for its length: the descriptor allocator is called.
C7_LongPathRejected ==
    [][ (f_pc = "idle" /\ cur'.op = "open") =>
            IF Len(cur'.path) >= MAXPATHLEN
            THEN /\ f_pc' = "idle" /\ f_ret' = -E_BAD_PATH
                 /\ log' = <<>>
                 /\ UNCHANGED <<fdtab, fsipcbuf, fsenv>>
            ELSE log' # <<>> /\ log'[1].ev = "fd_alloc" ]_vars

\* C7 witness: open was rejected for a path of exactly MAXPATHLEN
\* characters, with a request of an earlier call still in the buffer
C7_Witness ==
    /\ cur.op = "open" /\ Len(cur.path) = MAXPATHLEN
    /\ f_pc = "idle" /\ f_ret = -E_BAD_PATH
    /\ fsipcbuf.kind = "write" /\ DOMAIN fdtab # {}

\* C8: an open that passed the length check calls the allocator before it
\* sends anything; if the allocator fails it returns that error and sends
\* nothing; if the server's result is negative it closes the descriptor it
\* allocated with the flag 0, sends no flush request, leaves the descriptor
\* released and returns that result; otherwise it returns the index of the
\* descriptor it allocated.
C8_OpenFailureReleases ==
    (cur.op = "open" /\ Len(cur.path) < MAXPATHLEN) =>
        /\ log # <<>> /\ log[1].ev = "fd_alloc"
        /\ \A i \in Sends : i > 1 /\ log[i].type = "FSREQ_OPEN"
        /\ log[1].r < 0 =>
                /\ Len(log) = 1 /\ f_pc = "idle" /\ f_ret = log[1].r
                /\ cur.fd \notin DOMAIN fdtab
        /\ log[1].r >= 0 => Cardinality(Sends) = 1
        /\ (log[1].r >= 0 /\ f_pc = "idle") =>
                \E i \in Events("ipc_recv") :
                    IF log[i].r < 0
                    THEN /\ f_ret = log[i].r
                         /\ Len(log) = i + 1
                         /\ log[i + 1] = [ev |-> "fd_close", fd |-> cur.fd,
                                          must_exist |-> 0]
                         /\ cur.fd \notin DOMAIN fdtab
                    ELSE /\ f_ret = cur.fd
                         /\ Len(log) = i
                         /\ cur.fd \in DOMAIN fdtab

\* C8 witness: the server refused an open and the descriptor was released
C8_Witness ==
    /\ cur.op = "open" /\ f_pc = "idle" /\ f_ret = -11
    /\ cur.fd = 1 /\ DOMAIN fdtab = {0}
    /\ Events("fd_close") # {}

\* the write request the call in progress (or the last call) has sent
WriteSent(i) ==
    /\ log[i].type = "FSREQ_WRITE"
    /\ log[i].page.kind = "write"
    /\ log[i].page.req_n = WriteCapacity
    /\ log[i].page.req_buf = SubSeq(cur.buf, 1, WriteCapacity)

\* C9, as stated: a write of more than the payload capacity sends exactly
\* one request, carrying the first capacity bytes of the caller's buffer,
\* and the count it returns exceeds neither n nor the capacity.
C9_WriteWithinCapacity ==
    (cur.op = "write" /\ cur.n > WriteCapacity) =>
        /\ Cardinality(Sends) = 1
        /\ \A i \in Sends : WriteSent(i)
        /\ (f_pc = "idle" /\ f_ret >= 0) => f_ret <= cur.n /\ f_ret <= WriteCapacity

\* C9, amended: a write of more than the payload capacity sends exactly
\* one request, carrying the first capacity bytes of the caller's buffer,
\* and the count it returns exceeds neither n nor one page (it is the
\* server's count, which may exceed the capacity).
C9_WriteWithinPage ==
    (cur.op = "write" /\ cur.n > WriteCapacity) =>
        /\ Cardinality(Sends) = 1
        /\ \A i \in Sends : WriteSent(i)
        /\ (f_pc = "idle" /\ f_ret >= 0) => f_ret <= cur.n /\ f_ret <= PGSIZE

\* C9 witness: a write of more than a page returned a whole page
C9_Witness ==
    /\ cur.op = "write" /\ cur.n > PGSIZE
    /\ f_pc = "idle" /\ f_ret = PGSIZE

\* C10: a read that returns a count r >= 0 has r <= n and r <= one page,
\* has copied the first r bytes of the reply buffer to the caller's buffer
\* and has written nothing else (the n-byte buffer is not overrun); with
\* n = 0 the count is 0.
C10_ReadWithinBuffer ==
    (cur.op = "read" /\ f_pc = "idle" /\ f_ret >= 0) =>
        /\ f_ret <= cur.n /\ f_ret <= PGSIZE
        /\ Len(ubuf) = cur.n
        /\ \A k \in 1..cur.n :
                ubuf[k] = IF k <= f_ret THEN fsipcbuf.ret_buf[k] ELSE 0
        /\ cur.n = 0 => f_ret = 0

\* C10 witness: a read of more than a page returned part of what it asked
C10_Witness ==
    /\ cur.op = "read" /\ f_pc = "idle" /\ cur.n > PGSIZE
    /\ f_ret > 0 /\ f_ret < PGSIZE

\* C11 as stated: the count in a read request is at most one page
C11_ReadRequestWithinPage ==
    \A i \in Sends :
        log[i].type = "FSREQ_READ" => log[i].page.req_n <= PGSIZE

\* C11, as the code has it: the count in a read request is the caller's n
\* itself, also when n is more than a page; one page bounds the count the
\* call returns, not the count it asks for
C11_ReadRequestIsCallerCount ==
    /\ \A i \in Sends :
           log[i].type = "FSREQ_READ" =>
               /\ log[i].page.kind = "read"
               /\ log[i].page.req_n = cur.n
    /\ (cur.op = "read" /\ f_pc = "idle" /\ f_ret >= 0) => f_ret <= PGSIZE

C11_Witness ==
    \E i \in Sends :
        /\ log[i].type = "FSREQ_READ"
        /\ cur.n > PGSIZE
        /\ log[i].page.req_n > PGSIZE

\* C12: ipc_find_env is called by the first fsipc and never again, and every
\* ipc_send goes to the envid that call cached in fsenv
C12_ServerResolvedOnce ==
    /\ finds <= 1
    /\ (finds = 0) = (sentTo = {})
    /\ (finds = 0) = (fsenv = 0)
    /\ sentTo \subseteq {fsenv}
    /\ \A i \in Events("ipc_find_env") : finds = 1 /\ sentTo = {fsenv}
    /\ \A i \in Sends : log[i].to = fsenv

C12_Witness ==
    /\ finds = 1
    /\ sentTo = {FS_ENVID}
    /\ Events("ipc_find_env") = {}
    /\ Sends # {}

\* the ipc_recv events in the log of the current call
Recvs == Events("ipc_recv")

\* C13: a call that reaches fsipc makes one ipc_send, then one ipc_recv, and
\* returns only after it: at most one request is outstanding, and between the
\* send and the reply the client does not write fsipcbuf
C13_OneRequestOutstanding ==
    /\ Cardinality(Sends) <= 1
    /\ Cardinality(Recvs) <= Cardinality(Sends)
    /\ \A i \in Sends : \A j \in Recvs : i < j
    /\ \A i \in Sends : \A j \in Events("write_fsipcbuf") : j < i
    /\ (f_pc = "wait") = (Sends # {} /\ Recvs = {})
    /\ f_pc = "wait" => \A i \in Sends : log[i].page = fsipcbuf
    /\ (f_pc # "wait" /\ Sends # {}) => Cardinality(Recvs) = 1

C13_Witness ==
    /\ f_pc = "idle"
    /\ cur.op = "write"
    /\ Cardinality(Sends) = 1
    /\ Cardinality(Recvs) = 1
    /\ finds = 1
    /\ Events("ipc_find_env") = {}

\* C14: a negative result of the server is what the call returns, for each
\* of open, flush, read, write, stat, truncate and sync; read then leaves the
\* caller's buffer, and stat the caller's struct Stat, as they were
C14_ServerErrorReturned ==
    \A j \in Recvs :
        log[j].r < 0 =>
            /\ f_pc = "idle"
            /\ f_ret = log[j].r
            /\ cur.op = "read" => ubuf = [k \in 1..cur.n |-> 0]
            /\ cur.op = "stat" => ubuf = NoStat

C14_Witness ==
    /\ cur.op = "stat"
    /\ f_pc = "idle"
    /\ \E j \in Recvs : log[j].r = -1 /\ f_ret = -1
    /\ ubuf = NoStat

\* runcmd has run on last.line
RanLine == last.wr # {}
TooMany == "Too many arguments (max %d)"

\* the commands whose name is the token tok, character for character
Named(tok) == { i \in 1..Len(commands) : commands[i].name = tok }

\* C15: when the first token is the name of a command, that command's
\* handler is the one called and runcmd returns what it returned; when it is
\* the name of no command, no handler is called, "Unknown command" is
\* printed and runcmd returns 0
C15_DispatchByExactName ==
    (RanLine /\ last.argv # <<>>) =>
        IF Named(last.argv[1]) # {}
        THEN /\ Cardinality(Named(last.argv[1])) = 1
             /\ \A i \in Named(last.argv[1]) :
                    /\ last.called = commands[i].func
                    /\ last.diag = "none"
                    /\ \E o \in CallHandler(commands[i].func, last.pre, stack) :
                           /\ o.ret = last.ret
                           /\ o.panic = last.panic
                           /\ o.frames = last.frames
                           /\ o.tf = tf
        ELSE /\ last.called = "none"
             /\ last.diag = "Unknown command '%s'"
             /\ last.ret = 0
             /\ last.panic = "none"
             /\ last.frames = <<>>
             /\ tf = last.pre
             /\ mon_pc = "loop"

C15_Witness ==
    /\ RanLine
    /\ Len(last.argv) = 2
    /\ last.argv[1] = <<"e","x","i","t","s","t","e","p">>
    /\ last.called = "mon_exitstep"
    /\ last.ret = -2
    /\ mon_pc = "returned"

\* the line split on whitespace, written without the tokenizer: a token is
\* a longest run of characters none of which is tab, CR, LF or space
SpaceChars == {"\t", "\r", "\n", " "}
TokenStarts(line) ==
    { i \in 1..Len(line) :
        line[i] \notin SpaceChars /\ (i = 1 \/ line[i - 1] \in SpaceChars) }
TokenEnd(line, i) ==
    CHOOSE j \in i..Len(line) :
        /\ \A k \in i..j : line[k] \notin SpaceChars
        /\ j = Len(line) \/ line[j + 1] \in SpaceChars
SplitOnWhitespace(line) ==
    LET S == TokenStarts(line)
        nth(k) == CHOOSE i \in S : Cardinality({ j \in S : j < i }) = k - 1
    IN [k \in 1..Cardinality(S) |-> SubSeq(line, nth(k), TokenEnd(line, nth(k)))]

\* C16: the tokens runcmd hands on are the line split on whitespace, none
\* empty and none with a whitespace character in it; a line without tokens
\* prints nothing, calls nothing and returns 0; a line with more tokens than
\* argv takes calls nothing, prints "Too many arguments" and returns 0
C16_TokensAreTheSplit ==
    RanLine =>
        LET toks == SplitOnWhitespace(last.line)
        IN /\ Len(toks) \in 1..(MAXARGS - 1) =>
                /\ last.argv = toks
                /\ last.diag # TooMany
                /\ \A k \in 1..Len(last.argv) :
                       /\ last.argv[k] # <<>>
                       /\ \A c \in 1..Len(last.argv[k]) :
                              last.argv[k][c] \notin SpaceChars
           /\ Len(toks) = 0 =>
                /\ last.called = "none"
                /\ last.diag = "none"
                /\ last.ret = 0
                /\ tf = last.pre
                /\ mon_pc = "loop"
           /\ Len(toks) > MAXARGS - 1 =>
                /\ last.called = "none"
                /\ last.diag = TooMany
                /\ last.ret = 0
                /\ tf = last.pre
                /\ mon_pc = "loop"

C16_Witness ==
    /\ RanLine
    /\ last.line = <<"\r", "\n", "h","e","l","p", "\t", "\r", "m","e", " ", "\n">>
    /\ last.argv = << <<"h","e","l","p">>, <<"m","e">> >>
    /\ last.called = "mon_help"

\* the frame pointers of the chain in stack, innermost first: the saved ebp
\* of a frame is the word it points to
RECURSIVE ChainFrom(_)
ChainFrom(p) == IF p = 0 THEN <<>> ELSE <<p>> \o ChainFrom(stack.mem[p])
Chain == ChainFrom(stack.ebp)
\* the frames of the chain whose return address does not resolve
Unresolvable == { i \in 1..Len(Chain) : stack.mem[Chain[i] + 4] \notin DOMAIN stack.syms }

\* C17: on a chain of k frames ending in a zero link, all return addresses
\* resolving, backtrace prints k frames, innermost first, each with the word
\* at ebp+4 as its eip and the words at ebp+8 .. ebp+24 as its five
\* arguments, going on with the word at ebp; it prints none for k = 0, and
\* it returns 0
C17_BacktraceWalksChain ==
    (last.called = "mon_backtrace" /\ Unresolvable = {}) =>
        /\ last.panic = "none"
        /\ last.ret = 0
        /\ mon_pc = "loop"
        /\ Len(last.frames) = Len(Chain)
        /\ \A i \in 1..Len(Chain) :
               /\ last.frames[i].ebp = Chain[i]
               /\ last.frames[i].eip = stack.mem[Chain[i] + 4]
               /\ last.frames[i].args =
                      [w \in 1..5 |-> stack.mem[Chain[i] + 4 + 4 * w]]

C17_Witness ==
    /\ last.called = "mon_backtrace"
    /\ Unresolvable = {}
    /\ Len(Chain) = MaxFrames
    /\ Len(last.frames) = MaxFrames
    /\ last.ret = 0

\* C18: when the return address of the i-th frame is the first that does not
\* resolve, backtrace panics there: the frames before the i-th are printed,
\* the i-th and the later ones are not, and nothing is returned to runcmd
C18_BacktracePanicsAtFrame ==
    (last.called = "mon_backtrace" /\ Unresolvable # {}) =>
        LET i == CHOOSE j \in Unresolvable : \A k \in Unresolvable : j <= k
        IN /\ last.panic = PANIC_BACKTRACE
           /\ mon_pc = "panic"
           /\ Len(last.frames) = i - 1
           /\ \A j \in 1..(i - 1) : last.frames[j].ebp = Chain[j]

C18_Witness ==
    /\ last.called = "mon_backtrace"
    /\ Unresolvable = {MaxFrames}
    /\ Len(last.frames) = MaxFrames - 1
    /\ mon_pc = "panic"

\* C19: runcmd never holds more than MAXARGS-1 = 15 tokens and writes argv
\* at indices 0..15 only; a line is refused with "Too many arguments
\* (max 16)" exactly when it has more than 15 tokens, so a line of 16 tokens
\* is refused, and runs nothing
C19_ArgvWithinBounds ==
    RanLine =>
        LET n == Len(SplitOnWhitespace(last.line))
        IN /\ MAXARGS - 1 = 15
           /\ Len(last.argv) <= MAXARGS - 1
           /\ last.wr \subseteq 0..(MAXARGS - 1)
           /\ (last.diag = TooMany) = (n > MAXARGS - 1)
           /\ (n \in 1..(MAXARGS - 1)) => Len(last.argv) = n
           /\ n = MAXARGS =>
                /\ last.diag = TooMany
                /\ last.diagmax = 16
                /\ last.called = "none"
                /\ last.ret = 0
                /\ tf = last.pre
                /\ mon_pc = "loop"

C19_Witness ==
    /\ RanLine
    /\ Len(SplitOnWhitespace(last.line)) = MAXARGS
    /\ last.diag = TooMany
    /\ last.wr = 0..(MAXARGS - 2)

\* the two handlers that return the resume sentinel
Stepping == {"mon_step", "mon_exitstep"}

\* C20 as stated: monitor returns only right after a step or exitstep that
\* passed its checks; every other line (help, kerninfo, backtrace, an unknown
\* name, no token, too many tokens) and a null line leave the loop running
\* and the trap frame as it was; no command returns -1
C20_OnlySteppingStopsLoop ==
    /\ mon_pc = "returned" =>
            /\ RanLine
            /\ last.called \in Stepping
            /\ last.panic = "none"
    /\ last.ret # -1
    /\ ~RanLine => mon_pc = "loop"
    /\ (RanLine /\ last.called \notin Stepping) =>
            /\ tf = last.pre
            /\ mon_pc = "loop"

\* C20, as the code has it: the same, except that backtrace leaves the loop
\* running only when every return address of the chain resolves; when one
\* does not, it panics (the trap frame is still as it was).  A null line
\* changes neither the trap frame nor the state of the loop
C20_OnlySteppingReturns ==
    /\ [](/\ mon_pc = "returned" =>
                /\ RanLine
                /\ last.called \in Stepping
                /\ last.panic = "none"
                /\ last.ret = -2
          /\ last.ret # -1
          /\ ~RanLine => mon_pc = "loop"
          /\ (RanLine /\ last.called \notin Stepping) =>
                /\ tf = last.pre
                /\ IF last.called = "mon_backtrace" /\ Unresolvable # {}
                   THEN mon_pc = "panic" /\ last.panic = PANIC_BACKTRACE
                   ELSE mon_pc = "loop" /\ last.panic = "none")
    /\ [][last' = last => (tf' = tf /\ mon_pc' = mon_pc)]_vars

C20_Witness ==
    /\ mon_pc = "returned"
    /\ nread = MaxLines
    /\ last.called = "mon_exitstep"
    /\ last.ret = -2
    /\ tf # last.pre

====
